---- MODULE Spec2Model ----
(***************************************************************************)
(* A model of the post ingestion and ordering pipeline of rusty-blog:      *)
(* Post::open (src/posts.rs), Blog::load (src/blogs.rs) and the order in   *)
(* which main/Generator (src/lib.rs) load the blog and write the site.     *)
(*                                                                         *)
(* Strings are sequences of one-character strings, compared byte-wise as   *)
(* Rust compares String values.                                            *)
(***************************************************************************)
EXTENDS Integers, Sequences, FiniteSets, TLC

(***************************** bounds **************************************)
\* Largest number of directory entries of a directory of the small universe.
MaxEntries == 3
\* Largest number of same-date posts of a directory of the large universe.
MaxSameDate == 61

(***************************** strings *************************************)
\* Byte values of the characters the model's files are written in.
Ascii ==
    ("\n" :> 10) @@ (" " :> 32) @@ ("+" :> 43) @@ ("-" :> 45) @@
    ("." :> 46) @@ ("/" :> 47) @@ ("0" :> 48) @@ ("1" :> 49) @@
    ("2" :> 50) @@ ("3" :> 51) @@ ("4" :> 52) @@ ("5" :> 53) @@
    ("6" :> 54) @@ ("7" :> 55) @@ ("8" :> 56) @@ ("9" :> 57) @@
    (":" :> 58) @@ ("<" :> 60) @@ (">" :> 62) @@ ("B" :> 66) @@
    ("T" :> 84) @@ ("a" :> 97) @@ ("b" :> 98) @@ ("c" :> 99) @@
    ("d" :> 100) @@ ("e" :> 101) @@ ("f" :> 102) @@ ("g" :> 103) @@
    ("h" :> 104) @@ ("i" :> 105) @@ ("j" :> 106) @@ ("k" :> 107) @@
    ("l" :> 108) @@ ("m" :> 109) @@ ("n" :> 110) @@ ("o" :> 111) @@
    ("p" :> 112) @@ ("q" :> 113) @@ ("r" :> 114) @@ ("s" :> 115) @@
    ("t" :> 116) @@ ("u" :> 117) @@ ("v" :> 118) @@ ("w" :> 119) @@
    ("x" :> 120) @@ ("y" :> 121) @@ ("z" :> 122)

DigitChars == <<"0", "1", "2", "3", "4", "5", "6", "7", "8", "9">>

IsDigit(c) == \E d \in 1..10 : DigitChars[d] = c

DigitValue(c) == (CHOOSE d \in 1..10 : DigitChars[d] = c) - 1

\* str < str of Rust: lexicographic on bytes, a proper prefix is smaller.
RECURSIVE StrLess(_, _)
StrLess(a, b) ==
    IF b = <<>> THEN FALSE
    ELSE IF a = <<>> THEN TRUE
    ELSE IF Ascii[Head(a)] # Ascii[Head(b)] THEN Ascii[Head(a)] < Ascii[Head(b)]
    ELSE StrLess(Tail(a), Tail(b))

StartsAt(hay, pat, i) ==
    /\ i + Len(pat) - 1 <= Len(hay)
    /\ \A k \in 1..Len(pat) : hay[i + k - 1] = pat[k]

RECURSIVE FindFrom(_, _, _)
FindFrom(hay, pat, i) ==
    IF i + Len(pat) - 1 > Len(hay) THEN -1
    ELSE IF StartsAt(hay, pat, i) THEN i - 1
    ELSE FindFrom(hay, pat, i + 1)

\* str::find(pat): the 0-based byte offset of the first occurrence, or -1.
Find(hay, pat) == FindFrom(hay, pat, 1)

\* &s[from..] and &s[..to] with 0-based byte offsets (in range).
SliceFrom(s, from) == SubSeq(s, from + 1, Len(s))
SliceTo(s, to) == SubSeq(s, 1, to)

\* str::splitn(n, pat): at most n pieces, the last one holding the rest.
RECURSIVE SplitN(_, _, _)
SplitN(s, n, pat) ==
    LET at == Find(s, pat) IN
    IF n <= 1 \/ at < 0 THEN <<s>>
    ELSE <<SliceTo(s, at)>> \o SplitN(SliceFrom(s, at + Len(pat)), n - 1, pat)

\* str::parse of a decimal number without a sign (no name of the universes
\* carries one): [ok, value].
RECURSIVE DecimalValue(_)
DecimalValue(s) ==
    IF s = <<>> THEN 0
    ELSE 10 * DecimalValue(SubSeq(s, 1, Len(s) - 1)) + DigitValue(s[Len(s)])

ParseInt(s) ==
    IF s # <<>> /\ \A k \in 1..Len(s) : IsDigit(s[k])
    THEN [ok |-> TRUE, value |-> DecimalValue(s)]
    ELSE [ok |-> FALSE, value |-> 0]

\* format!("{}", n) of a number n >= 0.
RECURSIVE Decimal(_)
Decimal(n) ==
    IF n < 10 THEN <<DigitChars[n + 1]>>
    ELSE Decimal(n \div 10) \o <<DigitChars[(n % 10) + 1]>>

\* format!("{:0w}", n): zero-padded to at least w characters.
RECURSIVE PadLeft(_, _)
PadLeft(s, w) == IF Len(s) >= w THEN s ELSE PadLeft(<<"0">> \o s, w)

Padded(n, w) == PadLeft(Decimal(n), w)

Dash == <<"-">>
Fence == <<"-", "-", "-">>
Newline == <<"\n">>


\* All pieces of s between the occurrences of pat (str::split).
RECURSIVE Split(_, _)
Split(s, pat) ==
    LET at == Find(s, pat) IN
    IF at < 0 THEN <<s>>
    ELSE <<SliceTo(s, at)>> \o Split(SliceFrom(s, at + Len(pat)), pat)

(***************************** timestamps **********************************)
\* chrono rejects a second of 60 or more in NaiveDate::and_hms.
SecondsPerMinute == 60

IsLeapYear(y) == (y % 4 = 0 /\ y % 100 # 0) \/ y % 400 = 0

DaysInMonth(y, m) ==
    IF m = 2 THEN (IF IsLeapYear(y) THEN 29 ELSE 28)
    ELSE IF m \in {4, 6, 9, 11} THEN 30 ELSE 31

\* NaiveDate::from_ymd panics on a date that is not in the calendar.
ValidDate(y, m, d) == m \in 1..12 /\ d \in 1..DaysInMonth(y, m)

\* DateTime<Utc>::to_rfc3339 of y-m-d h:mi:s, "YYYY-MM-DDTHH:MM:SS+00:00".
Rfc3339(y, m, d, h, mi, s) ==
    Padded(y, 4) \o Dash \o Padded(m, 2) \o Dash \o Padded(d, 2) \o <<"T">> \o
    Padded(h, 2) \o <<":">> \o Padded(mi, 2) \o <<":">> \o Padded(s, 2) \o
    <<"+", "0", "0", ":", "0", "0">>

\* build_post_time: the date at 00:00:seconds UTC; panics when chrono
\* refuses the date or the second.
BuildPostTime(year, month, day, seconds) ==
    IF ~ValidDate(year, month, day) THEN [ok |-> FALSE, err |-> "InvalidDate"]
    ELSE IF seconds >= SecondsPerMinute THEN [ok |-> FALSE, err |-> "InvalidTime"]
    ELSE [ok |-> TRUE, value |-> Rfc3339(year, month, day, 0, 0, seconds)]

(***************************** post header *********************************)
RequiredKeys == {<<"t", "i", "t", "l", "e">>, <<"a", "u", "t", "h", "o", "r">>}

KeySep == <<":", " ">>

\* The lines of a YAML block mapping of plain scalars: the document marker
\* line and empty lines carry no entry.
EntryLines(text) ==
    LET ls == Split(text, Newline) IN
    SelectSeq(ls, LAMBDA l : l # <<>> /\ l # Fence)

EntryKey(line) == SliceTo(line, Find(line, KeySep))
EntryValue(line) == SliceFrom(line, Find(line, KeySep) + Len(KeySep))

\* serde_yaml::from_str::<YamlHeader>: YamlHeader derives Deserialize without
\* deny_unknown_fields, so a key that is no field is skipped; a missing or a
\* repeated field is an error.
DecodeYamlHeader(text) ==
    LET ls == EntryLines(text)
        wellFormed == \A k \in 1..Len(ls) : Find(ls[k], KeySep) >= 1
        At(key) == {k \in 1..Len(ls) : EntryKey(ls[k]) = key}
    IN  IF /\ wellFormed
           /\ \A key \in RequiredKeys : Cardinality(At(key)) = 1
        THEN [ok |-> TRUE,
              title |-> EntryValue(ls[CHOOSE k \in At(<<"t", "i", "t", "l", "e">>) : TRUE]),
              author |-> EntryValue(ls[CHOOSE k \in At(<<"a", "u", "t", "h", "o", "r">>) : TRUE])]
        ELSE [ok |-> FALSE, title |-> <<>>, author |-> <<>>]

(***************************** body ****************************************)
RECURSIVE Concat(_)
Concat(ss) == IF ss = <<>> THEN <<>> ELSE Head(ss) \o Concat(Tail(ss))

\* comrak::markdown_to_html on bodies whose lines are plain paragraphs and
\* thematic breaks, each followed by an empty line or the end of the text.
MarkdownToHtml(text) ==
    LET ls == Split(text, Newline)
        Block(l) ==
            IF l = <<>> THEN <<>>
            ELSE IF l = Fence THEN <<"<", "h", "r", " ", "/", ">", "\n">>
            ELSE <<"<", "p", ">">> \o l \o <<"<", "/", "p", ">", "\n">>
    IN  Concat([k \in 1..Len(ls) |-> Block(ls[k])])

\* PathBuf::set_extension("html") on a file name.
SetExtensionHtml(name) ==
    LET dots == {k \in 2..Len(name) : name[k] = "."}
        stem == IF dots = {} THEN name
                ELSE SliceTo(name, (CHOOSE k \in dots : \A j \in dots : j <= k) - 1)
    IN  stem \o <<".", "h", "t", "m", "l">>

\* Path::extension: the part after the last dot of the file name, if any.
Extension(name) ==
    LET dots == {k \in 2..Len(name) : name[k] = "."}
    IN  IF dots = {} THEN <<>>
        ELSE SliceFrom(name, CHOOSE k \in dots : \A j \in dots : j <= k)

(***************************** Post::open **********************************)
OpenFailed(why) == [ok |-> FALSE, err |-> why]

\* Post::open(path) on a directory entry [name, readable, contents].
PostOpen(file) ==
    LET split == SplitN(file.name, 4, Dash)
        year == ParseInt(split[1])
        month == ParseInt(split[2])
        day == ParseInt(split[3])
        filename == split[4]
        contents == file.contents
        found == Find(SliceFrom(contents, 4), Fence)
        end_of_yaml == found + 4
        header == DecodeYamlHeader(SliceTo(contents, end_of_yaml))
        published == BuildPostTime(year.value, month.value, day.value, 0)
    IN  IF Len(split) < 4 \/ ~year.ok \/ ~month.ok \/ ~day.ok
            THEN OpenFailed("MalformedFilename")
        ELSE IF ~file.readable THEN OpenFailed("IoError")
        ELSE IF Len(contents) < 4 \/ found < 0 THEN OpenFailed("HeaderNotTerminated")
        ELSE IF ~header.ok THEN OpenFailed("HeaderDecodeError")
        ELSE IF end_of_yaml + 4 > Len(contents) THEN OpenFailed("BodyOutOfRange")
        ELSE IF ~published.ok THEN OpenFailed(published.err)
        ELSE [ok |-> TRUE,
              post |-> [filename |-> filename,
                        title |-> header.title,
                        author |-> header.author,
                        year |-> year.value,
                        show_year |-> FALSE,
                        month |-> month.value,
                        day |-> day.value,
                        contents |-> MarkdownToHtml(SliceFrom(contents, end_of_yaml + 4)),
                        url |-> Padded(year.value, 4) \o <<"/">> \o Padded(month.value, 2)
                                \o <<"/">> \o Padded(day.value, 2) \o <<"/">>
                                \o SetExtensionHtml(filename),
                        published |-> published.value,
                        updated |-> published.value]]

\* Post::set_updated(seconds): the post's own date at 00:00:seconds.
SetUpdated(post, seconds) ==
    LET t == BuildPostTime(post.year, post.month, post.day, seconds)
    IN  IF t.ok THEN [ok |-> TRUE, post |-> [post EXCEPT !.updated = t.value]]
        ELSE [ok |-> FALSE, post |-> post]

(***************************** Blog::load, pure parts **********************)
\* blogs.rs: static POSTS_EXT
POSTS_EXT == <<"m", "d">>

ManifestKeys == {"title", "index-title"}

\* serde_yaml::from_str::<Manifest>: kebab-case keys, deny_unknown_fields.
DecodeManifest(keys) == keys = ManifestKeys

\* The key of sort_by_key: format!("{}-{:02}-{:02}-{}", year, month, day, title).
SortKey(post) ==
    Decimal(post.year) \o Dash \o Padded(post.month, 2) \o Dash
    \o Padded(post.day, 2) \o Dash \o post.title

RECURSIVE InsertByKey(_, _)
InsertByKey(sorted, p) ==
    IF sorted = <<>> THEN <<p>>
    ELSE IF StrLess(SortKey(p), SortKey(Head(sorted))) THEN <<p>> \o sorted
    ELSE <<Head(sorted)>> \o InsertByKey(Tail(sorted), p)

\* Vec::sort_by_key: ascending and stable (equal keys keep their order).
RECURSIVE SortByKey(_)
SortByKey(ps) ==
    IF ps = <<>> THEN <<>>
    ELSE InsertByKey(SortByKey(SubSeq(ps, 1, Len(ps) - 1)), ps[Len(ps)])

\* Vec::reverse
Reverse(ps) == [k \in 1..Len(ps) |-> ps[Len(ps) + 1 - k]]

\* posts.sort_by_key(..); posts.reverse();
SortedPosts(ps) == Reverse(SortByKey(ps))

\* ShowYearPass without the assignment to posts[0].
ShowYearPass_SkipsFirst(ps) ==
    [k \in 1..Len(ps) |->
        IF k = 1 THEN ps[k]
        ELSE [ps[k] EXCEPT !.show_year = ps[k - 1].year # ps[k].year]]

\* posts[0].show_year = true; for i in 1..len { posts[i].show_year = ... }
\* (on a non-empty vector; posts[0] of an empty one panics).
ShowYearPass(ps) ==
    [k \in 1..Len(ps) |->
        [ps[k] EXCEPT !.show_year = IF k = 1 THEN TRUE ELSE ps[k - 1].year # ps[k].year]]

\* DisambiguateAt comparing with the post before i instead of the anchor.
DisambiguateAt_ComparesPrevious(ps, i, last) ==
    IF ps[i + 1].updated = ps[i].updated
    THEN LET r == SetUpdated(ps[i + 1], 1)
         IN  [ok |-> r.ok, posts |-> [ps EXCEPT ![i + 1] = r.post], last |-> last]
    ELSE [ok |-> TRUE, posts |-> ps, last |-> i]

\* One iteration of the second loop, for the 0-based index i and anchor last.
DisambiguateAt(ps, i, last) ==
    IF ps[i + 1].updated = ps[last + 1].updated
    THEN LET r == SetUpdated(ps[i + 1], i - last)
         IN  [ok |-> r.ok, posts |-> [ps EXCEPT ![i + 1] = r.post], last |-> last]
    ELSE [ok |-> TRUE, posts |-> ps, last |-> i]

\* if path.metadata()?.file_type().is_file() && ext == Some(POSTS_EXT)
IsPostFile(entry) == entry.kind = "file" /\ Extension(entry.name) = POSTS_EXT

(***************************** inputs **************************************)
HeaderLine(key, value) == key \o KeySep \o value \o Newline

\* A post file: "---\n", the header entries, the closing "---\n" (when
\* terminated), an empty line and a one-line body.
Contents(entryLines, terminated) ==
    Fence \o Newline \o Concat(entryLines)
    \o (IF terminated THEN Fence \o Newline ELSE <<>>)
    \o Newline \o <<"B", "o", "d", "y">>

KTitle == <<"t", "i", "t", "l", "e">>
KAuthor == <<"a", "u", "t", "h", "o", "r">>
KDraft == <<"d", "r", "a", "f", "t">>
VTrue == <<"t", "r", "u", "e">>
VDashed == <<"a", "-", "-", "-", "b">>

Plain(title) == Contents(<<HeaderLine(KTitle, title), HeaderLine(KAuthor, <<"a">>)>>, TRUE)

PostName(y, m, d, slug) ==
    Decimal(y) \o Dash \o Padded(m, 2) \o Dash \o Padded(d, 2) \o Dash \o slug
    \o <<".">> \o POSTS_EXT

File(name, contents) ==
    [name |-> name, kind |-> "file", readable |-> TRUE, contents |-> contents]

\* The directory entries of the small universe: well-formed posts that share
\* dates, years and titles, and one entry for each way an entry can be
\* skipped or can fail.
GoodFiles ==
    { File(PostName(2021, 5, 5, <<"a">>), Plain(<<"y">>)),
      File(PostName(2021, 5, 5, <<"b">>), Plain(<<"x">>)),
      File(PostName(2021, 5, 5, <<"c">>), Plain(<<"x">>)),
      File(PostName(2021, 1, 2, <<"a">>), Plain(<<"x">>)),
      File(PostName(2020, 1, 1, <<"a">>), Plain(<<"x">>)) }

ExtraKeyFile ==
    File(PostName(2020, 1, 1, <<"b">>),
         Contents(<<HeaderLine(KTitle, <<"y">>), HeaderLine(KAuthor, <<"a">>),
                    HeaderLine(KDraft, VTrue)>>, TRUE))

DashedTitleFile ==
    File(PostName(2020, 1, 1, <<"c">>),
         Contents(<<HeaderLine(KTitle, VDashed), HeaderLine(KAuthor, <<"a">>)>>, TRUE))

DashedAuthorFile ==
    File(PostName(2020, 1, 1, <<"d">>),
         Contents(<<HeaderLine(KTitle, <<"x">>), HeaderLine(KAuthor, VDashed)>>, TRUE))

UnterminatedFile ==
    File(PostName(2020, 1, 1, <<"e">>),
         Contents(<<HeaderLine(KTitle, <<"x">>), HeaderLine(KAuthor, <<"a">>)>>, FALSE))

UnreadableFile ==
    [File(PostName(2021, 1, 2, <<"b">>), <<>>) EXCEPT !.readable = FALSE]

OtherFile == File(<<"a", "b", "o", "u", "t", ".", "t", "x", "t">>, <<>>)

SubDirectory ==
    [name |-> <<"o", "l", "d", ".">> \o POSTS_EXT, kind |-> "dir",
     readable |-> FALSE, contents |-> <<>>]

SkippedEntries == {OtherFile, SubDirectory}

FailingFiles == {DashedTitleFile, UnterminatedFile, UnreadableFile}

Universe ==
    GoodFiles \cup {ExtraKeyFile, DashedAuthorFile} \cup SkippedEntries \cup FailingFiles

\* Every order in which read_dir can yield every set of at most n entries.
Listings(n) ==
    UNION { { l \in [1..k -> Universe] : \A a, b \in 1..k : a # b => l[a] # l[b] }
            : k \in 0..n }

\* blog.yml as it is on disk.
GoodManifest == [readable |-> TRUE, keys |-> ManifestKeys]

BadManifests ==
    { [readable |-> FALSE, keys |-> {}],
      [readable |-> TRUE, keys |-> {"title"}],
      [readable |-> TRUE, keys |-> ManifestKeys \cup {"description"}] }

\* The posts of one date of the large universe: p1.md .. pk.md.
SameDateFile(n) == File(PostName(2021, 5, 5, <<"p">> \o Decimal(n)), Plain(<<"x">>))

ManyListings ==
    { prefix \o [n \in 1..k |-> SameDateFile(n)] :
        prefix \in {<<>>} \cup {<<e>> : e \in {OtherFile, UnreadableFile,
                                             File(PostName(2021, 1, 2, <<"a">>), Plain(<<"x">>))}},
        k \in 0..MaxSameDate }

\* The read_dir loop of Blog::load on the entries es, from the posts acc:
\* the posts pushed, or the first failure.
RECURSIVE OpenAll(_, _)
OpenAll(es, acc) ==
    IF es = <<>> THEN [ok |-> TRUE, posts |-> acc]
    ELSE IF ~IsPostFile(Head(es)) THEN OpenAll(Tail(es), acc)
    ELSE LET opened == PostOpen(Head(es))
         IN  IF opened.ok THEN OpenAll(Tail(es), Append(acc, opened.post))
             ELSE [ok |-> FALSE, posts |-> acc]

\* The second loop of Blog::load from index i with anchor last.
RECURSIVE DisambiguateFrom(_, _, _)
DisambiguateFrom(ps, i, last) ==
    IF i >= Len(ps) THEN [ok |-> TRUE, posts |-> ps]
    ELSE LET r == DisambiguateAt(ps, i, last)
         IN  IF r.ok THEN DisambiguateFrom(r.posts, i + 1, r.last)
             ELSE [ok |-> FALSE, posts |-> r.posts]

\* Blog::load after the manifest is decoded, as a function of what read_dir
\* yields: [ok, posts].
BlogLoad(es) ==
    LET opened == OpenAll(es, <<>>)
    IN  IF ~opened.ok \/ opened.posts = <<>> THEN [ok |-> FALSE, posts |-> opened.posts]
        ELSE DisambiguateFrom(ShowYearPass(SortedPosts(opened.posts)), 1, 0)

(***************************** state ***************************************)
VARIABLES
    pc,                     \* where main is
    err,                    \* "none", or why the run failed
    manifest_file,          \* blog.yml on disk
    listing,                \* the entries of posts/ in read_dir order
    entries,                \* the entries read_dir has not yielded yet
    manifest,               \* the decoded Manifest's keys
    posts,                  \* Vec<Post> of Blog::load
    i,                      \* index of the second loop of Blog::load
    last_matching_updated,  \* its anchor
    out_dir,                \* site/ exists
    written,                \* the pages written under site/
    static_copied           \* the static assets are copied into site/

vars == <<pc, err, manifest_file, listing, entries, manifest, posts, i,
          last_matching_updated, out_dir, written, static_copied>>

\* The manifest is read before the directory is listed: a manifest that
\* fails is paired with the short listings only.
InitWith(ls) ==
    /\ pc = "new"
    /\ err = "none"
    /\ listing \in ls
    /\ manifest_file \in {GoodManifest} \cup (IF Len(listing) <= 1 THEN BadManifests ELSE {})
    /\ entries = listing
    /\ manifest = {}
    /\ posts = <<>>
    /\ i = 0
    /\ last_matching_updated = 0
    /\ out_dir = FALSE
    /\ written = {}
    /\ static_copied = FALSE

Init == InitWith(Listings(MaxEntries))

InitMany == InitWith(ManyListings)

Fail(why) == pc' = "failed" /\ err' = why

\* Generator::new, first half: the templates are registered.
RegisterTemplates ==
    /\ pc = "new"
    /\ \E ok \in BOOLEAN :
          IF ok THEN pc' = "manifest" /\ UNCHANGED err ELSE Fail("TemplateError")
    /\ UNCHANGED <<manifest_file, listing, entries, manifest, posts, i,
                   last_matching_updated, out_dir, written, static_copied>>

\* Blog::load: blog.yml is read and decoded.
LoadManifest ==
    /\ pc = "manifest"
    /\ IF ~manifest_file.readable THEN Fail("IoError") /\ UNCHANGED manifest
       ELSE IF ~DecodeManifest(manifest_file.keys)
            THEN Fail("ManifestDecodeError") /\ UNCHANGED manifest
       ELSE pc' = "read_dir" /\ manifest' = manifest_file.keys /\ UNCHANGED err
    /\ UNCHANGED <<manifest_file, listing, entries, posts, i,
                   last_matching_updated, out_dir, written, static_copied>>

\* ReadDirEntry that skips a post file it cannot open and goes on.
ReadDirEntry_SkipsFailed ==
    /\ pc = "read_dir"
    /\ entries # <<>>
    /\ LET entry == Head(entries)
           opened == PostOpen(entry)
       IN  /\ entries' = Tail(entries)
           /\ IF IsPostFile(entry) /\ opened.ok
              THEN posts' = Append(posts, opened.post)
              ELSE UNCHANGED posts
    /\ UNCHANGED <<pc, err, manifest_file, listing, manifest, i,
                   last_matching_updated, out_dir, written, static_copied>>

\* Blog::load: one iteration of the read_dir loop.
ReadDirEntry ==
    /\ pc = "read_dir"
    /\ entries # <<>>
    /\ LET entry == Head(entries)
           opened == PostOpen(entry)
       IN  /\ entries' = Tail(entries)
           /\ IF ~IsPostFile(entry) THEN UNCHANGED <<pc, err, posts>>
              ELSE IF opened.ok
                   THEN posts' = Append(posts, opened.post) /\ UNCHANGED <<pc, err>>
              ELSE Fail(opened.err) /\ UNCHANGED posts
    /\ UNCHANGED <<manifest_file, listing, manifest, i, last_matching_updated,
                   out_dir, written, static_copied>>

\* Blog::load: the posts are sorted by key and reversed.
SortPosts ==
    /\ pc = "read_dir"
    /\ entries = <<>>
    /\ posts' = SortedPosts(posts)
    /\ pc' = "show_year"
    /\ UNCHANGED <<err, manifest_file, listing, entries, manifest, i,
                   last_matching_updated, out_dir, written, static_copied>>

\* Blog::load: the first loop; posts[0] of an empty vector panics.
ShowYear ==
    /\ pc = "show_year"
    /\ IF posts = <<>>
       THEN Fail("IndexOutOfBounds") /\ UNCHANGED <<posts, i, last_matching_updated>>
       ELSE /\ posts' = ShowYearPass(posts)
            /\ pc' = "disambiguate"
            /\ i' = 1
            /\ last_matching_updated' = 0
            /\ UNCHANGED err
    /\ UNCHANGED <<manifest_file, listing, entries, manifest, out_dir, written,
                   static_copied>>

\* Blog::load: one iteration of the second loop; set_updated panics when
\* build_post_time does.
Disambiguate ==
    /\ pc = "disambiguate"
    /\ i < Len(posts)
    /\ LET r == DisambiguateAt(posts, i, last_matching_updated)
       IN  IF r.ok
           THEN /\ posts' = r.posts
                /\ last_matching_updated' = r.last
                /\ i' = i + 1
                /\ UNCHANGED <<pc, err>>
           ELSE Fail("InvalidTime") /\ UNCHANGED <<posts, i, last_matching_updated>>
    /\ UNCHANGED <<manifest_file, listing, entries, manifest, out_dir, written,
                   static_copied>>

\* Blog::load returns Ok(Blog) and Generator::new Ok(Generator).
LoadOk ==
    /\ pc = "disambiguate"
    /\ i >= Len(posts)
    /\ pc' = "loaded"
    /\ UNCHANGED <<err, manifest_file, listing, entries, manifest, posts, i,
                   last_matching_updated, out_dir, written, static_copied>>

IndexPage == <<"i", "n", "d", "e", "x", ".", "h", "t", "m", "l">>

\* Generator::render: fs::create_dir_all(&self.out_directory)?
CreateOutDir ==
    /\ pc = "loaded"
    /\ \E ok \in BOOLEAN :
          IF ok THEN pc' = "render_index" /\ out_dir' = TRUE /\ UNCHANGED err
          ELSE Fail("WriteError") /\ UNCHANGED out_dir
    /\ UNCHANGED <<manifest_file, listing, entries, manifest, posts, i,
                   last_matching_updated, written, static_copied>>

\* Generator::render_blog: render_index
RenderIndex ==
    /\ pc = "render_index"
    /\ \E ok \in BOOLEAN :
          IF ok THEN /\ pc' = "render_posts"
                     /\ written' = written \cup {IndexPage}
                     /\ i' = 0
                     /\ UNCHANGED err
          ELSE Fail("WriteError") /\ UNCHANGED <<written, i>>
    /\ UNCHANGED <<manifest_file, listing, entries, manifest, posts,
                   last_matching_updated, out_dir, static_copied>>

\* Generator::render_blog: render_post for the next post.
RenderPost ==
    /\ pc = "render_posts"
    /\ i < Len(posts)
    /\ \E ok \in BOOLEAN :
          IF ok THEN /\ written' = written \cup {posts[i + 1].url}
                     /\ i' = i + 1
                     /\ UNCHANGED <<pc, err>>
          ELSE Fail("WriteError") /\ UNCHANGED <<written, i>>
    /\ UNCHANGED <<manifest_file, listing, entries, manifest, posts,
                   last_matching_updated, out_dir, static_copied>>

\* Generator::render: the style sheets are compiled and static/ is copied.
CopyStatic ==
    /\ pc = "render_posts"
    /\ i >= Len(posts)
    /\ \E ok \in BOOLEAN :
          IF ok THEN pc' = "done" /\ static_copied' = TRUE /\ UNCHANGED err
          ELSE Fail("WriteError") /\ UNCHANGED static_copied
    /\ UNCHANGED <<manifest_file, listing, entries, manifest, posts, i,
                   last_matching_updated, out_dir, written>>

Next ==
    \/ RegisterTemplates
    \/ LoadManifest
    \/ ReadDirEntry
    \/ SortPosts
    \/ ShowYear
    \/ Disambiguate
    \/ LoadOk
    \/ CreateOutDir
    \/ RenderIndex
    \/ RenderPost
    \/ CopyStatic

Spec == Init /\ [][Next]_vars

SpecMany == InitMany /\ [][Next]_vars

(***************************** properties **********************************)
\* Blog::load has returned Ok: the blog is assembled.
Loaded == pc \in {"loaded", "render_index", "render_posts", "done"}

\* The entries read_dir has yielded so far.
Yielded == 1..(Len(listing) - Len(entries))

SameDate(p, q) == p.year = q.year /\ p.month = q.month /\ p.day = q.day

\* The post's date at 00:00:00 UTC plus n seconds (n below a day), as RFC 3339.
MidnightPlus(p, n) ==
    Rfc3339(p.year, p.month, p.day, n \div 3600, (n % 3600) \div 60, n % 60)

\* Stepwise and whole-function Blog::load agree.
LoadAgrees == pc = "loaded" => BlogLoad(listing) = [ok |-> TRUE, posts |-> posts]

\* The name of the file a post was read from (names of the universes are
\* zero-padded).
SourceName(p) ==
    Decimal(p.year) \o Dash \o Padded(p.month, 2) \o Dash \o Padded(p.day, 2)
    \o Dash \o p.filename

\* The header of a file as its lines delimit it: the lines after the opening
\* "---" line up to the first later line that is exactly "---".
FileLines(e) == Split(e.contents, Newline)

ClosingLines(e) == {k \in 2..Len(FileLines(e)) : FileLines(e)[k] = Fence}

HasClosingLine(e) == ClosingLines(e) # {}

FencedLines(e) ==
    SubSeq(FileLines(e), 2, (CHOOSE k \in ClosingLines(e) : \A j \in ClosingLines(e) : k <= j) - 1)

FencedKeys(e) == {EntryKey(FencedLines(e)[k]) : k \in 1..Len(FencedLines(e))}

FencedValue(e, key) ==
    EntryValue(FencedLines(e)[CHOOSE k \in 1..Len(FencedLines(e)) :
                                  EntryKey(FencedLines(e)[k]) = key])

\* A post file whose name and date Post::open accepts and whose bytes it reads.
Openable(e) ==
    /\ IsPostFile(e)
    /\ e.readable
    /\ LET split == SplitN(e.name, 4, Dash)
       IN  /\ Len(split) = 4
           /\ \A k \in 1..3 : ParseInt(split[k]).ok
           /\ ValidDate(ParseInt(split[1]).value, ParseInt(split[2]).value,
                        ParseInt(split[3]).value)

\* ---------------------------------------------------------------- C1
\* C1: once Blog::load has succeeded, no two posts of the blog have the same
\* `updated` value.
C1_UpdatedUnique ==
    Loaded => \A a, b \in 1..Len(posts) :
                  a # b => posts[a].updated # posts[b].updated

\* C1 witness: a loaded blog with three posts of one date.
C1_Witness ==
    /\ pc = "loaded"
    /\ \E a, b, c \in 1..Len(posts) :
          a < b /\ b < c /\ SameDate(posts[a], posts[b]) /\ SameDate(posts[b], posts[c])

\* ---------------------------------------------------------------- C2
\* The key the claim sorts by: "{year}-{month:02}-{day:02}-{slug}".
SlugKey(p) ==
    Decimal(p.year) \o Dash \o Padded(p.month, 2) \o Dash \o Padded(p.day, 2)
    \o Dash \o p.filename

\* C2: the final post list is in descending order of the slug key, so of two
\* posts of one date the one with the greater slug comes first, whatever the
\* titles are.
C2_DescendingBySlugKey ==
    Loaded => \A k \in 1..(Len(posts) - 1) :
                  ~StrLess(SlugKey(posts[k]), SlugKey(posts[k + 1]))

\* ---------------------------------------------------------------- C3
NoPostFiles == \A k \in 1..Len(listing) : ~IsPostFile(listing[k])

\* C3: with a valid manifest and no post file, the load gets past the
\* show_year pass with an empty post list and does not crash at posts[0].
C3_EmptyDirectoryLoads ==
    (NoPostFiles /\ manifest = ManifestKeys /\ pc \notin {"read_dir", "show_year"})
        => (err \in {"none", "WriteError"} /\ posts = <<>>)

\* ---------------------------------------------------------------- C4
\* C4: a post file whose header has a key set other than {title, author} is
\* rejected with a header decode error and gives no post.
C4_ExactHeaderKeys ==
    \A n \in Yielded :
        LET e == listing[n] IN
        (Openable(e) /\ HasClosingLine(e) /\ FencedKeys(e) # RequiredKeys)
            => /\ pc = "failed"
               /\ err = "HeaderDecodeError"
               /\ \A k \in 1..Len(posts) : SourceName(posts[k]) # e.name

\* ---------------------------------------------------------------- C5
\* C5: after assembly of a non-empty collection, show_year of a post is true
\* exactly when the post is first or its year differs from the year of the
\* post before it in the final order.
C5_ShowYear ==
    (Loaded /\ posts # <<>>) =>
        \A k \in 1..Len(posts) :
            posts[k].show_year = (k = 1 \/ posts[k].year # posts[k - 1].year)

\* C5 witness: a loaded blog where a later post shows its year and another
\* later post does not.
C5_Witness ==
    /\ pc = "loaded"
    /\ \E a, b \in 2..Len(posts) : posts[a].show_year /\ ~posts[b].show_year

\* ---------------------------------------------------------------- C6
\* The anchor of the 0-based position k, from the original timestamps
\* (`published` keeps the value `updated` had before the pass).
RECURSIVE AnchorOf(_, _)
AnchorOf(ps, k) ==
    IF k = 0 THEN 0
    ELSE LET a == AnchorOf(ps, k - 1)
         IN  IF ps[k + 1].published = ps[a + 1].published THEN a ELSE k

\* C6: the pass visits every i from 1 to the end; a post whose timestamp
\* equals the anchor's gets the anchor's timestamp plus (i - anchor) seconds,
\* any other post becomes the anchor and keeps its timestamp.
C6_AnchorPass ==
    /\ err # "InvalidTime"
    /\ pc \in {"disambiguate", "loaded"} =>
          /\ last_matching_updated = AnchorOf(posts, i - 1)
          /\ \A k \in 0..(i - 1) :
                LET a == AnchorOf(posts, k)
                IN  posts[k + 1].updated = MidnightPlus(posts[a + 1], k - a)

\* The part of C6 the code keeps: what the pass has written so far.
C6_WrittenSoFar ==
    pc \in {"disambiguate", "loaded"} =>
          /\ last_matching_updated = AnchorOf(posts, i - 1)
          /\ \A k \in 0..(i - 1) :
                LET a == AnchorOf(posts, k)
                IN  posts[k + 1].updated = MidnightPlus(posts[a + 1], k - a)

\* ---------------------------------------------------------------- C7
PostFileCount == Cardinality({k \in 1..Len(listing) : IsPostFile(listing[k])})

SomethingWritten == out_dir \/ written # {} \/ static_copied

\* The run failed before Generator::render: in registering the templates,
\* in reading or decoding the manifest or a post file, or in assembling.
LoadFailed == err \notin {"none", "WriteError"}

\* C7: nothing is written before the manifest is decoded, every post file is
\* parsed and the collection is assembled; a run in which a read or a decode
\* failed has ended failed and has written nothing.
C7_FailFast ==
    /\ SomethingWritten =>
          /\ ~LoadFailed
          /\ manifest = ManifestKeys
          /\ entries = <<>>
          /\ Len(posts) = PostFileCount
          /\ pc \in {"render_index", "render_posts", "done", "failed"}
    /\ LoadFailed => pc = "failed" /\ ~SomethingWritten

\* C7 witness: the run failed on a post file after other posts were parsed,
\* and nothing is written.
C7_Witness ==
    /\ pc = "failed"
    /\ err = "HeaderDecodeError"
    /\ Len(posts) >= 1
    /\ ~SomethingWritten

\* ---------------------------------------------------------------- C8
\* C8: the header is what stands before the first "---" line; it is decoded
\* into the post's title and author, also when a value holds "---" inside a
\* line, and a file without a closing line fails as not terminated.
C8_HeaderEndsAtFenceLine ==
    \A n \in Yielded :
        LET e == listing[n] IN
        Openable(e) =>
            IF ~HasClosingLine(e)
            THEN pc = "failed" /\ err = "HeaderNotTerminated"
            ELSE FencedKeys(e) = RequiredKeys =>
                    \E k \in 1..Len(posts) :
                        /\ SourceName(posts[k]) = e.name
                        /\ posts[k].title = FencedValue(e, KTitle)
                        /\ posts[k].author = FencedValue(e, KAuthor)

\* ---------------------------------------------------------------- C9
\* The 0-based offset of position k in its block of same-date posts.
OffsetInDate(ps, k) ==
    k - (CHOOSE f \in 1..k : /\ \A j \in f..k : SameDate(ps[j], ps[k])
                             /\ (f = 1 \/ ~SameDate(ps[f - 1], ps[k])))

\* C9: assembly completes for any number of posts of one date, and the j-th
\* post of a same-date block gets the date's midnight plus j seconds.
C9_AnyBlockSize ==
    /\ err # "InvalidTime"
    /\ Loaded => \A k \in 1..Len(posts) :
                     posts[k].updated = MidnightPlus(posts[k], OffsetInDate(posts, k))

\* ---------------------------------------------------------------- C10
\* The orders in which read_dir can yield the entries of the directory.
Reorderings(l) ==
    { [k \in 1..Len(l) |-> l[q[k]]] : q \in Permutations(1..Len(l)) }

\* C10: the assembled posts are the same for every order in which the
\* directory yields the same files.
C10_OrderIndependent ==
    pc = "loaded" =>
        \A other \in Reorderings(listing) :
            BlogLoad(other) = [ok |-> TRUE, posts |-> posts]

====
